---- MODULE Spec2Model ----
(***************************************************************************)
(* A model of filament's Graph (src/src/Graph.ts): an Immutable.js Record  *)
(* holding a node Map and an edge Map, its mutators, its adjacency queries *)
(* and its lazy wavefront traversals (topoSort, ancestors, descendants).   *)
(*                                                                         *)
(* Maps are functions over the set of their keys.  Graph records live in   *)
(* a heap of objects so that "returns this" and "returns a new Graph" are  *)
(* different outcomes.  A traversal is the closure state of traverseUp /   *)
(* traverseDown (wavefront, residual edges) plus what the consumer has     *)
(* pulled so far.                                                          *)
(***************************************************************************)
EXTENDS Integers, Sequences, FiniteSets

\* ----------------------------------------------------------------- bounds
\* Node keys are the numbers 0..MaxKey; 0 is the falsy key of NodeKey.
MaxKey == 2
\* Most edges of a graph given to the traversals.
MaxEdges == 3
\* Most edges of a graph given to the mutators.
MaxMutEdges == 1
\* Most entries one traversal instance is asked for.
MaxEmit == 4
\* Most node entries and edge triples, together, given to one Graph.from call.
MaxFromLen == 2

Keys == 0..MaxKey
NodeVals == {"n1", "n2"}
EdgeVals == {"e1", "e2"}
\* The value a Map lookup gives for a key that is not set.
Undefined == "undefined"

VARIABLES heap, call, trav, trav2
vars == <<heap, call, trav, trav2>>

\* ------------------------------------------------------------ Map helpers
EmptyMap == << >>
MapSet(m, k, v) == [x \in (DOMAIN m) \cup {k} |-> IF x = k THEN v ELSE m[x]]
MapDelete(m, k) == [x \in (DOMAIN m) \ {k} |-> m[x]]
MapGet(m, k, notSetValue) == IF k \in DOMAIN m THEN m[k] ELSE notSetValue
MapFilterKeys(m, S) == [x \in (DOMAIN m) \cap S |-> m[x]]

\* ---------------------------------------------------------------- EdgeKey
EdgeKey(source, target) == <<source, target>>
Source(ek) == ek[1]
Target(ek) == ek[2]

\* ------------------------------------------------------------ Graph.from
RECURSIVE NodesOf(_)
NodesOf(entries) ==
  IF entries = << >> THEN EmptyMap
  ELSE LET n == Len(entries)
           last == entries[n]
       IN MapSet(NodesOf(SubSeq(entries, 1, n - 1)), last[1], last[2])

RECURSIVE EdgesOf(_)
EdgesOf(triples) ==
  IF triples = << >> THEN EmptyMap
  ELSE LET n == Len(triples)
           last == triples[n]
       IN MapSet(EdgesOf(SubSeq(triples, 1, n - 1)),
                 EdgeKey(last[1], last[2]), last[3])

fromDeclaredOnly(nodes, edges) ==
  [nodes |-> NodesOf(nodes),
   edges |-> MapFilterKeys(EdgesOf(edges),
               {ek \in DOMAIN EdgesOf(edges) :
                  Source(ek) \in DOMAIN NodesOf(nodes) /\ Target(ek) \in DOMAIN NodesOf(nodes)})]

from(nodes, edges) == [nodes |-> NodesOf(nodes), edges |-> EdgesOf(edges)]

\* ------------------------------------------------------- point queries
hasNode(g, key) == key \in DOMAIN g.nodes
getNode(g, key) == MapGet(g.nodes, key, Undefined)
hasEdge(g, srcKey, tgtKey) == EdgeKey(srcKey, tgtKey) \in DOMAIN g.edges
getEdge(g, srcKey, tgtKey) == MapGet(g.edges, EdgeKey(srcKey, tgtKey), Undefined)

\* --------------------------------------------------- adjacency queries
\* A keyed Seq is the function from its keys to its values.
predecessorsBySource(g, key) ==
  [k \in {Source(ek) : ek \in {x \in DOMAIN g.edges : Source(x) = key}}
     |-> getNode(g, k)]

predecessors(g, key) ==
  [k \in {Source(ek) : ek \in {x \in DOMAIN g.edges : Target(x) = key}}
     |-> getNode(g, k)]
successors(g, key) ==
  [k \in {Target(ek) : ek \in {x \in DOMAIN g.edges : Source(x) = key}}
     |-> getNode(g, k)]
findSources(g) ==
  LET targets == {Target(ek) : ek \in DOMAIN g.edges}
  IN MapFilterKeys(g.nodes, (DOMAIN g.nodes) \ targets)
findSinks(g) ==
  LET sources == {Source(ek) : ek \in DOMAIN g.edges}
  IN MapFilterKeys(g.nodes, (DOMAIN g.nodes) \ sources)

\* The entries of a keyed Seq, one after the other (in key order here: the order
\* is the Map's and no claim reads it).
RECURSIVE Entries(_)
Entries(m) ==
  IF DOMAIN m = {} THEN << >>
  ELSE LET k == CHOOSE x \in DOMAIN m : \A y \in DOMAIN m : x <= y
       IN <<<<k, m[k]>>>> \o Entries(MapFilterKeys(m, (DOMAIN m) \ {k}))

neighborsUnfiltered(g, key) ==
  Entries(predecessors(g, key)) \o Entries(successors(g, key))

neighbors(g, key) ==
  LET pre == predecessors(g, key)
      all == successors(g, key)
      suc == MapFilterKeys(all, (DOMAIN all) \ (DOMAIN pre))
  IN Entries(pre) \o Entries(suc)

\* ---------------------------------------------------------------- mutators
\* Record.setIn / deleteIn / update on the object at heap[this]: the receiver is
\* never written; a changed value is a new Record, an unchanged one is `this`.
RecordWithInPlace(h, this, g) == [heap |-> [h EXCEPT ![this] = g], ret |-> this]

RecordWith(h, this, g) ==
  IF g = h[this] THEN [heap |-> h, ret |-> this]
  ELSE [heap |-> Append(h, g), ret |-> Len(h) + 1]

setNode(h, this, key, node) ==
  RecordWith(h, this, [h[this] EXCEPT !.nodes = MapSet(@, key, node)])

deleteNodeCascade(h, this, key) ==
  RecordWith(h, this,
    [nodes |-> MapDelete(h[this].nodes, key),
     edges |-> MapFilterKeys(h[this].edges,
                 {ek \in DOMAIN h[this].edges : Source(ek) # key /\ Target(ek) # key})])

deleteNode(h, this, key) ==
  RecordWith(h, this, [h[this] EXCEPT !.nodes = MapDelete(@, key)])

connectUnchecked(h, this, srcKey, tgtKey, edge) ==
  RecordWith(h, this,
    [h[this] EXCEPT !.edges = MapSet(@, EdgeKey(srcKey, tgtKey), edge)])

connectSourceOnly(h, this, srcKey, tgtKey, edge) ==
  IF ~ hasNode(h[this], srcKey) THEN [heap |-> h, ret |-> this]
  ELSE RecordWith(h, this,
         [h[this] EXCEPT !.edges = MapSet(@, EdgeKey(srcKey, tgtKey), edge)])

connect(h, this, srcKey, tgtKey, edge) ==
  IF ~ hasNode(h[this], srcKey) \/ ~ hasNode(h[this], tgtKey)
  THEN [heap |-> h, ret |-> this]
  ELSE RecordWith(h, this,
         [h[this] EXCEPT !.edges = MapSet(@, EdgeKey(srcKey, tgtKey), edge)])

disconnectUnchecked(h, this, srcKey, tgtKey) ==
  RecordWith(h, this,
    [h[this] EXCEPT !.edges = MapDelete(@, EdgeKey(srcKey, tgtKey))])

disconnect(h, this, srcKey, tgtKey) ==
  IF ~ hasNode(h[this], srcKey) \/ ~ hasNode(h[this], tgtKey)
  THEN [heap |-> h, ret |-> this]
  ELSE RecordWith(h, this,
         [h[this] EXCEPT !.edges = MapDelete(@, EdgeKey(srcKey, tgtKey))])

connectAllSourcesOnly(h, this, srcKeys, tgtKeys, value) ==
  LET srcs == {src \in srcKeys : hasNode(h[this], src)}
      pairs == {EdgeKey(source, target) : source \in srcs, target \in tgtKeys}
      edges == h[this].edges
  IN RecordWith(h, this,
       [h[this] EXCEPT !.edges =
          [ek \in (DOMAIN edges) \cup pairs |->
             IF ek \in pairs THEN value[ek] ELSE edges[ek]]])

connectAll(h, this, srcKeys, tgtKeys, value) ==
  LET srcs == {src \in srcKeys : hasNode(h[this], src)}
      tgts == {tgt \in tgtKeys : hasNode(h[this], tgt)}
      pairs == {EdgeKey(source, target) : source \in srcs, target \in tgts}
      edges == h[this].edges
  IN RecordWith(h, this,
       [h[this] EXCEPT !.edges =
          [ek \in (DOMAIN edges) \cup pairs |->
             IF ek \in pairs THEN value[ek] ELSE edges[ek]]])


\* ------------------------------------------------------------ traversals
\* `!nodeKey` is true of undefined (an empty wavefront) and of the keys 0 and "".
Falsy(nodeKey) == nodeKey = 0

NoTrav ==
  [kind |-> "none", key |-> 0, wavefront |-> {}, edges |-> EmptyMap,
   emitted |-> << >>, done |-> FALSE, pulls |-> 0]

\* The closure state traverseUp / traverseDown set up before the first pull.
traverseInit(g, kind, key, keys) ==
  [kind |-> kind, key |-> key, wavefront |-> keys, edges |-> g.edges,
   emitted |-> << >>, done |-> FALSE, pulls |-> 0]

traverseDownNextEager(g, t, nodeKey) ==
  [t EXCEPT !.wavefront = (t.wavefront \ {nodeKey}) \cup DOMAIN successors(g, nodeKey),
            !.edges = MapFilterKeys(t.edges, {ek \in DOMAIN t.edges : Source(ek) # nodeKey}),
            !.emitted = Append(t.emitted, <<nodeKey, getNode(g, nodeKey)>>)]

\* One call of traverseDown's next() that found nodeKey first in the wavefront.
traverseDownNext(g, t, nodeKey) ==
  LET edges == MapFilterKeys(t.edges, {ek \in DOMAIN t.edges : Source(ek) # nodeKey})
      ready == {sucKey \in DOMAIN successors(g, nodeKey) :
                  ~ \E ek \in DOMAIN edges : Target(ek) = sucKey}
  IN [t EXCEPT !.wavefront = (t.wavefront \ {nodeKey}) \cup ready,
               !.edges = edges,
               !.emitted = Append(t.emitted, <<nodeKey, getNode(g, nodeKey)>>)]

\* One call of traverseUp's next() that found nodeKey first in the wavefront.
traverseUpNext(g, t, nodeKey) ==
  LET edges == MapFilterKeys(t.edges, {ek \in DOMAIN t.edges : Target(ek) # nodeKey})
      ready == {sucKey \in DOMAIN predecessors(g, nodeKey) :
                  ~ \E ek \in DOMAIN edges : Source(ek) = sucKey}
  IN [t EXCEPT !.wavefront = (t.wavefront \ {nodeKey}) \cup ready,
               !.edges = edges,
               !.emitted = Append(t.emitted, <<nodeKey, getNode(g, nodeKey)>>)]

traverseNext(g, t, nodeKey) ==
  IF t.kind = "ancestors" THEN traverseUpNext(g, t, nodeKey)
  ELSE traverseDownNext(g, t, nodeKey)

\* What the consumer of ancestors(key) / descendants(key) / topoSort() has seen.
ancestors(emitted, key) == SelectSeq(emitted, LAMBDA e : e[1] # key)
descendantsUnfiltered(emitted, key) == emitted

descendants(emitted, key) == SelectSeq(emitted, LAMBDA e : e[1] # key)
topoSort(emitted) == emitted

Output(t) ==
  IF t.kind = "ancestors" THEN ancestors(t.emitted, t.key)
  ELSE IF t.kind = "descendants" THEN descendants(t.emitted, t.key)
  ELSE topoSort(t.emitted)

\* hasCycles() on a fully consumed topoSort().
hasCycles(g, t) == Len(topoSort(t.emitted)) # Cardinality(DOMAIN g.nodes)

\* ------------------------------------------------------------- the state
NoCall ==
  [op |-> "none", this |-> 0, ret |-> 0, src |-> 0, tgt |-> 0,
   val |-> Undefined, srcs |-> {}, tgts |-> {}, fn |-> EmptyMap,
   out |-> << >>, nodeEntries |-> << >>, edgeEntries |-> << >>]

RECURSIVE SortedSeq(_)
SortedSeq(S) ==
  IF S = {} THEN << >>
  ELSE LET m == CHOOSE x \in S : \A y \in S : x <= y
       IN <<m>> \o SortedSeq(S \ {m})

RECURSIVE SortedEdgeSeq(_)
SortedEdgeSeq(E) ==
  IF E = {} THEN << >>
  ELSE LET m == CHOOSE x \in E : \A y \in E :
                   x[1] < y[1] \/ (x[1] = y[1] /\ x[2] <= y[2])
       IN <<m>> \o SortedEdgeSeq(E \ {m})

\* A fixture in the style of the test suite: one value per node, one per edge.
Fixture(N, E) ==
  LET ns == SortedSeq(N)
      es == SortedEdgeSeq(E)
  IN from([i \in 1..Len(ns) |-> <<ns[i], "n1">>],
          [i \in 1..Len(es) |-> <<es[i][1], es[i][2], "e1">>])

EdgeSets(max) == {E \in SUBSET (Keys \X Keys) : Cardinality(E) <= max}

Init ==
  /\ \E N \in SUBSET Keys, E \in EdgeSets(MaxEdges) : heap = <<Fixture(N, E)>>
  /\ call = NoCall
  /\ trav = NoTrav
  /\ trav2 = NoTrav

\* ------------------------------------------------------ traversal actions
CallTopoSort ==
  /\ trav.kind = "none"
  /\ trav' = traverseInit(heap[1], "topoSort", 0, DOMAIN findSources(heap[1]))
  /\ UNCHANGED <<heap, call, trav2>>

CallAncestors ==
  /\ trav.kind = "none"
  /\ \E key \in Keys : trav' = traverseInit(heap[1], "ancestors", key, {key})
  /\ UNCHANGED <<heap, call, trav2>>

CallDescendants ==
  /\ trav.kind = "none"
  /\ \E key \in Keys : trav' = traverseInit(heap[1], "descendants", key, {key})
  /\ UNCHANGED <<heap, call, trav2>>

\* The consumer pulls: the iterator's next().  wavefront.first() is the first key
\* in the Set's iteration order, which the library decides: any key of the set.
IterNextDone ==
  /\ trav.kind # "none"
  /\ ~ trav.done
  /\ \/ trav.wavefront = {}
     \/ \E nodeKey \in trav.wavefront : Falsy(nodeKey)
  /\ trav' = [trav EXCEPT !.done = TRUE]
  /\ UNCHANGED <<heap, call, trav2>>

IterNextValue ==
  /\ trav.kind # "none"
  /\ ~ trav.done
  /\ Len(trav.emitted) < MaxEmit
  /\ \E nodeKey \in trav.wavefront :
       /\ ~ Falsy(nodeKey)
       /\ trav' = traverseNext(heap[1], trav, nodeKey)
  /\ UNCHANGED <<heap, call, trav2>>

Next ==
  \/ CallTopoSort
  \/ CallAncestors
  \/ CallDescendants
  \/ IterNextDone
  \/ IterNextValue

Spec == Init /\ [][Next]_vars

\* --------------------------------------------------------- mutator actions
\* One mutator call on the graph at heap[1]; the caller keeps both references.
KeyLists == {S \in SUBSET Keys : Cardinality(S) <= 2}
\* The value function given to connectAll: one that tells (src, tgt) from
\* (tgt, src), so that the value stored shows which pair it was computed for.
ValueFns == {[ek \in Keys \X Keys |-> IF ek[1] < ek[2] THEN "e1" ELSE "e2"]}

Returned(r, c) ==
  /\ heap' = r.heap
  /\ call' = [c EXCEPT !.ret = r.ret]
  /\ UNCHANGED <<trav, trav2>>

CallSetNode ==
  /\ call.op = "none"
  /\ \E key \in Keys, node \in NodeVals :
       Returned(setNode(heap, 1, key, node),
                [NoCall EXCEPT !.op = "setNode", !.this = 1, !.src = key, !.val = node])

CallDeleteNode ==
  /\ call.op = "none"
  /\ \E key \in Keys :
       Returned(deleteNode(heap, 1, key),
                [NoCall EXCEPT !.op = "deleteNode", !.this = 1, !.src = key])

CallConnect ==
  /\ call.op = "none"
  /\ \E srcKey \in Keys, tgtKey \in Keys, edge \in EdgeVals :
       Returned(connect(heap, 1, srcKey, tgtKey, edge),
                [NoCall EXCEPT !.op = "connect", !.this = 1, !.src = srcKey,
                               !.tgt = tgtKey, !.val = edge])

CallDisconnect ==
  /\ call.op = "none"
  /\ \E srcKey \in Keys, tgtKey \in Keys :
       Returned(disconnect(heap, 1, srcKey, tgtKey),
                [NoCall EXCEPT !.op = "disconnect", !.this = 1, !.src = srcKey,
                               !.tgt = tgtKey])

CallConnectAll ==
  /\ call.op = "none"
  /\ \E srcKeys \in KeyLists, tgtKeys \in KeyLists, value \in ValueFns :
       Returned(connectAll(heap, 1, srcKeys, tgtKeys, value),
                [NoCall EXCEPT !.op = "connectAll", !.this = 1, !.srcs = srcKeys,
                               !.tgts = tgtKeys, !.fn = value])

InitMut ==
  /\ \E N \in SUBSET Keys, E \in EdgeSets(MaxMutEdges) : heap = <<Fixture(N, E)>>
  /\ call = NoCall
  /\ trav = NoTrav
  /\ trav2 = NoTrav

NextMut ==
  \/ CallSetNode
  \/ CallDeleteNode
  \/ CallConnect
  \/ CallDisconnect
  \/ CallConnectAll

SpecMut == InitMut /\ [][NextMut]_vars

\* ----------------------------------------------------------- query actions
\* One adjacency query on the graph at heap[1]; the caller keeps the result.
CallPredecessors ==
  /\ call.op = "none"
  /\ \E key \in Keys :
       call' = [NoCall EXCEPT !.op = "predecessors", !.this = 1, !.src = key,
                              !.out = Entries(predecessors(heap[1], key))]
  /\ UNCHANGED <<heap, trav, trav2>>

CallSuccessors ==
  /\ call.op = "none"
  /\ \E key \in Keys :
       call' = [NoCall EXCEPT !.op = "successors", !.this = 1, !.src = key,
                              !.out = Entries(successors(heap[1], key))]
  /\ UNCHANGED <<heap, trav, trav2>>

CallNeighbors ==
  /\ call.op = "none"
  /\ \E key \in Keys :
       call' = [NoCall EXCEPT !.op = "neighbors", !.this = 1, !.src = key,
                              !.out = neighbors(heap[1], key)]
  /\ UNCHANGED <<heap, trav, trav2>>

NextQuery ==
  \/ CallPredecessors
  \/ CallSuccessors
  \/ CallNeighbors

SpecQuery == Init /\ [][NextQuery]_vars

\* ------------------------------------------------------ Graph.from action
\* The lists of at most n elements of S.
ListsUpTo(S, n) == UNION {[1..m -> S] : m \in 0..n}

InitFrom ==
  /\ heap = << >>
  /\ call = NoCall
  /\ trav = NoTrav
  /\ trav2 = NoTrav

\* Graph.from(nodes, edges) with any lists, repeated keys and undeclared
\* endpoints included.
CallFrom ==
  /\ call.op = "none"
  /\ \E n \in 0..MaxFromLen :
       \E nodes \in [1..n -> Keys \X NodeVals] :
         \E edges \in ListsUpTo(Keys \X Keys \X EdgeVals, MaxFromLen - n) :
           /\ heap' = Append(heap, from(nodes, edges))
           /\ call' = [NoCall EXCEPT !.op = "from", !.ret = Len(heap) + 1,
                                     !.nodeEntries = nodes, !.edgeEntries = edges]
  /\ UNCHANGED <<trav, trav2>>

NextFrom == CallFrom

SpecFrom == InitFrom /\ [][NextFrom]_vars

\* ------------------------------------------------------- graph vocabulary
\* The keys one edge away from a key of S, and everything reachable from S.
\* ------------------------------------------------ a consumer that never stops
\* The consumer of count() / forEach() keeps calling next() until it returns
\* done.  The record of what was emitted stops growing at MaxEmit entries; the
\* closure's wavefront and edges go on changing as the code changes them, and
\* pulls is the parity of the number of next() calls the consumer has made.
ConsumerPull ==
  /\ trav.kind # "none"
  /\ ~ trav.done
  /\ \E nodeKey \in trav.wavefront :
       /\ ~ Falsy(nodeKey)
       /\ trav' = LET t == [traverseNext(heap[1], trav, nodeKey)
                                EXCEPT !.pulls = 1 - @]
                  IN IF Len(trav.emitted) < MaxEmit THEN t
                     ELSE [t EXCEPT !.emitted = trav.emitted]
  /\ UNCHANGED <<heap, call, trav2>>

NextLive ==
  \/ CallTopoSort
  \/ CallAncestors
  \/ CallDescendants
  \/ IterNextDone
  \/ ConsumerPull

SpecLive ==
  /\ InitMut
  /\ [][NextLive]_vars
  /\ WF_vars(IterNextDone)
  /\ WF_vars(ConsumerPull)

\* ------------------------------------------- two traversals of one graph
\* A second ancestors / descendants / topoSort call on the same graph makes its
\* own closure (trav2); the consumers pull from the two in any order.
MaxTwoEdges == 1

Seeds(g, kind, key) ==
  IF kind = "topoSort" THEN DOMAIN findSources(g) ELSE {key}

\* What one next() call that found nodeKey first in its closure's wavefront
\* leaves behind: the graph, the closure it belongs to, and the other closure.
closureNextShared(g, own, other, nodeKey) ==
  LET t == traverseNext(g, own, nodeKey)
  IN [graph |-> g, own |-> t,
      other |-> IF other.kind = "none" THEN other
                ELSE [other EXCEPT !.edges = t.edges, !.wavefront = t.wavefront]]

closureNext(g, own, other, nodeKey) ==
  [graph |-> g, own |-> traverseNext(g, own, nodeKey), other |-> other]

InitTwo ==
  /\ \E E \in EdgeSets(MaxTwoEdges) : heap = <<Fixture(Keys, E)>>
  /\ call = NoCall
  /\ trav = NoTrav
  /\ trav2 = NoTrav

CallSecond ==
  /\ trav2.kind = "none"
  /\ \E kind \in {"topoSort", "ancestors", "descendants"}, key \in Keys :
       /\ kind = "topoSort" => key = 0
       /\ trav2' = traverseInit(heap[1], kind, key, Seeds(heap[1], kind, key))
  /\ UNCHANGED <<heap, call, trav>>

PullFirst ==
  /\ trav.kind # "none"
  /\ ~ trav.done
  /\ Len(trav.emitted) < MaxEmit
  /\ \E nodeKey \in trav.wavefront :
       /\ ~ Falsy(nodeKey)
       /\ LET r == closureNext(heap[1], trav, trav2, nodeKey)
          IN /\ heap' = [heap EXCEPT ![1] = r.graph]
             /\ trav' = r.own
             /\ trav2' = r.other
  /\ UNCHANGED call

PullSecond ==
  /\ trav2.kind # "none"
  /\ ~ trav2.done
  /\ Len(trav2.emitted) < MaxEmit
  /\ \E nodeKey \in trav2.wavefront :
       /\ ~ Falsy(nodeKey)
       /\ LET r == closureNext(heap[1], trav2, trav, nodeKey)
          IN /\ heap' = [heap EXCEPT ![1] = r.graph]
             /\ trav2' = r.own
             /\ trav' = r.other
  /\ UNCHANGED call

PullSecondDone ==
  /\ trav2.kind # "none"
  /\ ~ trav2.done
  /\ \/ trav2.wavefront = {}
     \/ \E nodeKey \in trav2.wavefront : Falsy(nodeKey)
  /\ trav2' = [trav2 EXCEPT !.done = TRUE]
  /\ UNCHANGED <<heap, call, trav>>

NextTwo ==
  \/ CallTopoSort
  \/ CallAncestors
  \/ CallDescendants
  \/ CallSecond
  \/ PullFirst
  \/ IterNextDone
  \/ PullSecond
  \/ PullSecondDone

SpecTwo == InitTwo /\ [][NextTwo]_vars

\* ------------------------------------------ chains of calls from Graph()
\* Graph() with no values, then g.setNode(..).connect(..)...: every call is made
\* on the graph the call before it returned.  The heap keeps the receiver and the
\* result of the last call; graphs nothing holds any more are dropped.  A chain
\* goes on while its graph has at most MaxSeqEdges edges, and ends with its
\* first deleteNode.  The claim is about keys, so the calls give one node value
\* and one edge value, and connectAll two keys on each side.
MaxSeqEdges == 2

Graph == [nodes |-> EmptyMap, edges |-> EmptyMap]
Held == <<heap[IF call.op = "none" THEN 1 ELSE call.ret]>>
Chaining == call.op # "deleteNode"
KeyPairs == {S \in SUBSET Keys : Cardinality(S) = 2}
WithinSeq(r) == Cardinality(DOMAIN r.heap[r.ret].edges) <= MaxSeqEdges

InitSeq ==
  /\ heap = <<Graph>>
  /\ call = NoCall
  /\ trav = NoTrav
  /\ trav2 = NoTrav

ThenSetNode ==
  /\ Chaining
  /\ \E key \in Keys, node \in {"n1"} :
       Returned(setNode(Held, 1, key, node),
                [NoCall EXCEPT !.op = "setNode", !.this = 1, !.src = key, !.val = node])

ThenConnect ==
  /\ Chaining
  /\ \E srcKey \in Keys, tgtKey \in Keys, edge \in {"e1"} :
       LET r == connect(Held, 1, srcKey, tgtKey, edge)
       IN /\ WithinSeq(r)
          /\ Returned(r, [NoCall EXCEPT !.op = "connect", !.this = 1, !.src = srcKey,
                                        !.tgt = tgtKey, !.val = edge])

ThenConnectAll ==
  /\ Chaining
  /\ \E srcKeys \in KeyPairs, tgtKeys \in KeyPairs :
       LET value == [ek \in Keys \X Keys |-> "e1"]
           r == connectAll(Held, 1, srcKeys, tgtKeys, value)
       IN /\ WithinSeq(r)
          /\ Returned(r, [NoCall EXCEPT !.op = "connectAll", !.this = 1,
                                        !.srcs = srcKeys, !.tgts = tgtKeys, !.fn = value])

ThenDisconnect ==
  /\ Chaining
  /\ \E srcKey \in Keys, tgtKey \in Keys :
       Returned(disconnect(Held, 1, srcKey, tgtKey),
                [NoCall EXCEPT !.op = "disconnect", !.this = 1, !.src = srcKey,
                               !.tgt = tgtKey])

ThenDeleteNode ==
  /\ Chaining
  /\ \E key \in Keys :
       Returned(deleteNode(Held, 1, key),
                [NoCall EXCEPT !.op = "deleteNode", !.this = 1, !.src = key])

NextSeq ==
  \/ ThenSetNode
  \/ ThenConnect
  \/ ThenConnectAll
  \/ ThenDisconnect
  \/ ThenDeleteNode

SpecSeq == InitSeq /\ [][NextSeq]_vars

Step(E, S) == {Target(ek) : ek \in {x \in E : Source(x) \in S}}
RECURSIVE ReachFrom(_, _)
ReachFrom(E, S) ==
  LET T == S \cup Step(E, S) IN IF T = S THEN S ELSE ReachFrom(E, T)
\* The keys reachable from u along one or more edges of E.
DescOf(E, u) == ReachFrom(E, Step(E, {u}))
\* The keys from which u is reachable along one or more edges of E.
AncOf(E, u) == {w \in {Source(ek) : ek \in E} : u \in DescOf(E, w)}
HasCycle(E) == \E ek \in E : Source(ek) \in ReachFrom(E, {Target(ek)})

G == heap[1]
StoredEdges == DOMAIN G.edges
NodeKeys == DOMAIN G.nodes
KeysOf(entries) == {entries[i][1] : i \in 1..Len(entries)}
Times(entries, k) == Cardinality({i \in 1..Len(entries) : entries[i][1] = k})
IsTopoSort == trav.kind = "topoSort"
IsAncestors == trav.kind = "ancestors"
IsDescendants == trav.kind = "descendants"

\* C1: on an acyclic graph a fully consumed topoSort() emits |nodes| entries,
\* each node key exactly once, and hasCycles() is false.
C1_AcyclicTopoSortEmitsEveryNodeOnce ==
  (IsTopoSort /\ trav.done /\ ~ HasCycle(StoredEdges)) =>
    /\ Len(Output(trav)) = Cardinality(NodeKeys)
    /\ \A k \in NodeKeys : Times(Output(trav), k) = 1
    /\ ~ hasCycles(G, trav)

\* C2: in every topoSort() run, consumed fully or in part, when a key v has been
\* emitted every source u of a stored edge (u,v) was emitted before it.
C2_TopoSortEmitsSourcesFirst ==
  IsTopoSort =>
    \A i \in 1..Len(trav.emitted) : \A ek \in StoredEdges :
      Target(ek) = trav.emitted[i][1] =>
        \E j \in 1..(i - 1) : trav.emitted[j][1] = Source(ek)

\* C2 witness: topoSort() has emitted a key that a stored edge points into.
C2_Witness ==
  /\ IsTopoSort
  /\ \E i \in 1..Len(trav.emitted) : \E ek \in StoredEdges :
       /\ Target(ek) = trav.emitted[i][1]
       /\ Source(ek) # Target(ek)

\* C3: on a graph whose edges contain a directed cycle a fully consumed
\* topoSort() emits fewer than |nodes| entries and hasCycles() is true.
C3_CyclicTopoSortEmitsFewer ==
  (IsTopoSort /\ trav.done /\ HasCycle(StoredEdges)) =>
    /\ Len(Output(trav)) < Cardinality(NodeKeys)
    /\ hasCycles(G, trav)

\* C4: a fully consumed ancestors(u) of a present key u holds every key w # u
\* from which u is reachable along stored edges.
C4_AncestorsReturnsAllAncestors ==
  (IsAncestors /\ trav.done /\ hasNode(G, trav.key)) =>
    \A w \in AncOf(StoredEdges, trav.key) \ {trav.key} : w \in KeysOf(Output(trav))

\* C5: a fully consumed descendants(u) of a present key u holds every key w # u
\* reachable from u along stored edges.
C5_DescendantsReturnsAllDescendants ==
  (IsDescendants /\ trav.done /\ hasNode(G, trav.key)) =>
    \A w \in DescOf(StoredEdges, trav.key) \ {trav.key} : w \in KeysOf(Output(trav))

\* C6: ancestors(u) and descendants(u) hold each key at most once.
C6_NoKeyTwice ==
  (IsAncestors \/ IsDescendants) =>
    \A k \in KeysOf(Output(trav)) : Times(Output(trav), k) = 1

\* C7: for a key z that is not a node, ancestors(z) and descendants(z) are empty.
C7_MissingKeyYieldsEmpty ==
  ((IsAncestors \/ IsDescendants) /\ ~ hasNode(G, trav.key)) =>
    Output(trav) = << >>

\* C8: no element of ancestors(u) or descendants(u) has key u, in any prefix.
C8_SeedNeverInResult ==
  (IsAncestors \/ IsDescendants) => trav.key \notin KeysOf(Output(trav))

\* C8 witness: a cycle routed the traversal back through u (u was emitted a
\* second time) and the result seen so far is not empty.
C8_Witness ==
  /\ IsAncestors \/ IsDescendants
  /\ Times(trav.emitted, trav.key) >= 2
  /\ Output(trav) # << >>

\* Every fully consumed topoSort() of g: one sequence per order in which the
\* wavefront can hand out its keys.
RECURSIVE Runs(_, _)
Runs(g, t) ==
  (IF t.wavefront = {} \/ \E k \in t.wavefront : Falsy(k)
     THEN {topoSort(t.emitted)} ELSE {})
    \cup UNION {Runs(g, traverseDownNext(g, t, k)) :
                  k \in {x \in t.wavefront : ~ Falsy(x)}}
TopoSortRuns(g) == Runs(g, traverseInit(g, "topoSort", 0, DOMAIN findSources(g)))

\* The answers of every query of a graph value.
Answers(g) ==
  [hasNode |-> [k \in Keys |-> hasNode(g, k)],
   getNode |-> [k \in Keys |-> getNode(g, k)],
   hasEdge |-> [ek \in Keys \X Keys |-> hasEdge(g, ek[1], ek[2])],
   getEdge |-> [ek \in Keys \X Keys |-> getEdge(g, ek[1], ek[2])],
   predecessors |-> [k \in Keys |-> predecessors(g, k)],
   successors |-> [k \in Keys |-> successors(g, k)],
   findSources |-> findSources(g),
   findSinks |-> findSinks(g),
   topoSort |-> TopoSortRuns(g),
   hasCycles |-> {Len(r) # Cardinality(DOMAIN g.nodes) : r \in TopoSortRuns(g)}]

ConnectCall == call.op = "connect"
BothPresent(g, c) == hasNode(g, c.src) /\ hasNode(g, c.tgt)

\* C9: connect(src, tgt, e) sets the edge (src,tgt) to e, and nothing else, iff
\* both keys are nodes of the receiver; otherwise it returns the receiver itself,
\* whose nodes and edges are what they were, with no new edge.
C9_ConnectStep ==
  (call.op = "none" /\ call'.op = "connect") =>
    LET recv == heap[call'.this]
        r == heap'[call'.ret]
    IN IF BothPresent(recv, call')
       THEN /\ hasEdge(r, call'.src, call'.tgt)
            /\ getEdge(r, call'.src, call'.tgt) = call'.val
            /\ \A s \in Keys, t \in Keys :
                 <<s, t>> # <<call'.src, call'.tgt>> =>
                   /\ hasEdge(r, s, t) = hasEdge(recv, s, t)
                   /\ getEdge(r, s, t) = getEdge(recv, s, t)
            /\ r.nodes = recv.nodes
       ELSE /\ call'.ret = call'.this
            /\ Len(heap') = Len(heap)
            /\ r.nodes = recv.nodes
            /\ r.edges = recv.edges
C9_ConnectIffBothPresent == [][C9_ConnectStep]_vars

\* C9 witness: connect was called with a present source and an absent target
\* and gave back the receiver.
C9_Witness ==
  /\ ConnectCall
  /\ hasNode(heap[call.this], call.src)
  /\ ~ hasNode(heap[call.this], call.tgt)
  /\ call.ret = call.this

\* C10: a mutator call leaves every answer of every query on every graph that
\* existed before the call as it was; only the returned graph shows the change.
C10_Step ==
  \A i \in DOMAIN heap :
    /\ i \in DOMAIN heap'
    /\ Answers(heap'[i]) = Answers(heap[i])
C10_MutatorsLeaveReceiver == [][C10_Step]_vars

\* C10 witness: a mutator returned a new graph whose answers differ from the
\* receiver's.
C10_Witness ==
  /\ call.op # "none"
  /\ call.ret # call.this
  /\ Answers(heap[call.ret]) # Answers(heap[call.this])

\* C11: v is a key of successors(u) iff u is a key of predecessors(v), and both
\* hold exactly when the graph stores the edge (u,v).
C11_SuccessorsPredecessorsDual ==
  /\ call.op = "successors" =>
       \A v \in Keys :
         /\ (v \in KeysOf(call.out)) = hasEdge(G, call.src, v)
         /\ (v \in KeysOf(call.out)) = (call.src \in DOMAIN predecessors(G, v))
  /\ call.op = "predecessors" =>
       \A u \in Keys :
         /\ (u \in KeysOf(call.out)) = hasEdge(G, u, call.src)
         /\ (u \in KeysOf(call.out)) = (call.src \in DOMAIN successors(G, u))

\* C11 witness: predecessors(v) was asked of a graph that stores (u,v) and not
\* (v,u), and u is in the answer.
C11_Witness ==
  /\ call.op = "predecessors"
  /\ \E u \in KeysOf(call.out) :
       /\ u # call.src
       /\ ~ hasEdge(G, call.src, u)

\* C12: neighbors(u) holds no key twice and its keys are those of
\* predecessors(u) together with those of successors(u).
C12_NeighborsIsUnionWithoutDuplicates ==
  call.op = "neighbors" =>
    /\ \A k \in KeysOf(call.out) : Times(call.out, k) = 1
    /\ KeysOf(call.out) =
         (DOMAIN predecessors(G, call.src)) \cup (DOMAIN successors(G, call.src))

\* C12 witness: neighbors(u) was asked where some key is both a predecessor and
\* a successor of u.
C12_Witness ==
  /\ call.op = "neighbors"
  /\ (DOMAIN predecessors(G, call.src)) \cap (DOMAIN successors(G, call.src)) # {}
  /\ Len(call.out) >= 2

LastNodeEntry(entries, i) ==
  \A j \in (i + 1)..Len(entries) : entries[j][1] # entries[i][1]
LastEdgeTriple(triples, i) ==
  \A j \in (i + 1)..Len(triples) :
    <<triples[j][1], triples[j][2]>> # <<triples[i][1], triples[i][2]>>

\* C13: after Graph.from(nodes, edges) hasNode is true of every supplied node key
\* and hasEdge of every supplied (source, target), declared endpoints or not, and
\* the value stored for a repeated key or pair is the last one supplied.
C13_FromKeepsEveryEntryLastWins ==
  call.op = "from" =>
    LET g == heap[call.ret]
        ns == call.nodeEntries
        es == call.edgeEntries
    IN /\ \A i \in 1..Len(ns) :
            /\ hasNode(g, ns[i][1])
            /\ LastNodeEntry(ns, i) => getNode(g, ns[i][1]) = ns[i][2]
       /\ \A i \in 1..Len(es) :
            /\ hasEdge(g, es[i][1], es[i][2])
            /\ LastEdgeTriple(es, i) => getEdge(g, es[i][1], es[i][2]) = es[i][3]

\* C13 witness: Graph.from was given the same (source, target) twice with two
\* values, its source not among the node keys.
C13_Witness ==
  /\ call.op = "from"
  /\ \E i \in 1..Len(call.edgeEntries) :
       /\ ~ LastEdgeTriple(call.edgeEntries, i)
       /\ getEdge(heap[call.ret], call.edgeEntries[i][1], call.edgeEntries[i][2])
            # call.edgeEntries[i][3]
       /\ ~ hasNode(heap[call.ret], call.edgeEntries[i][1])

\* The graph that connect(s, t, value(s, t)), called on the result of the call
\* before it, gives for the pairs of a list, starting from g.
RECURSIVE FoldConnect(_, _, _)
FoldConnect(g, pairs, value) ==
  IF pairs = << >> THEN g
  ELSE LET n == Len(pairs)
           ek == pairs[n]
           prior == FoldConnect(g, SubSeq(pairs, 1, n - 1), value)
           r == connect(<<prior>>, 1, Source(ek), Target(ek), value[ek])
       IN r.heap[r.ret]
CrossProduct(srcKeys, tgtKeys) ==
  SortedEdgeSeq({EdgeKey(s, t) : s \in srcKeys, t \in tgtKeys})
PresentPairs(g, c) ==
  {ek \in c.srcs \X c.tgts : hasNode(g, Source(ek)) /\ hasNode(g, Target(ek))}

\* C14: connectAll(srcKeys, tgtKeys, f) returns a graph with the nodes and edges
\* that folding connect(s, t, f(s,t)) over srcKeys x tgtKeys gives from the
\* receiver.
C14_Step ==
  (call.op = "none" /\ call'.op = "connectAll") =>
    LET recv == heap[call'.this]
        r == heap'[call'.ret]
        folded == FoldConnect(recv, CrossProduct(call'.srcs, call'.tgts), call'.fn)
    IN /\ r.nodes = folded.nodes
       /\ r.edges = folded.edges
C14_ConnectAllIsFoldOfConnect == [][C14_Step]_vars

\* C14 witness: connectAll was given a pair with an absent endpoint and two
\* pairs of present nodes, on a receiver with an edge outside the cross product.
C14_Witness ==
  /\ call.op = "connectAll"
  /\ Cardinality(PresentPairs(heap[call.this], call)) >= 2
  /\ PresentPairs(heap[call.this], call) # call.srcs \X call.tgts
  /\ \E ek \in DOMAIN heap[call.this].edges :
       /\ ek \notin call.srcs \X call.tgts
       /\ hasEdge(heap[call.ret], Source(ek), Target(ek))

\* C15: disconnect(src, tgt) returns the receiver itself, edges as they were,
\* when src or tgt is not a node; otherwise the returned graph lacks (src,tgt)
\* and has every other edge and every node unchanged.
C15_Step ==
  (call.op = "none" /\ call'.op = "disconnect") =>
    LET recv == heap[call'.this]
        r == heap'[call'.ret]
    IN IF BothPresent(recv, call')
       THEN /\ ~ hasEdge(r, call'.src, call'.tgt)
            /\ \A s \in Keys, t \in Keys :
                 <<s, t>> # <<call'.src, call'.tgt>> =>
                   /\ hasEdge(r, s, t) = hasEdge(recv, s, t)
                   /\ getEdge(r, s, t) = getEdge(recv, s, t)
            /\ r.nodes = recv.nodes
       ELSE /\ call'.ret = call'.this
            /\ Len(heap') = Len(heap)
            /\ r.nodes = recv.nodes
            /\ r.edges = recv.edges
C15_DisconnectNeedsBothNodes == [][C15_Step]_vars

\* C15 witness: disconnect(src, tgt) was called where (src,tgt) is stored and an
\* endpoint is not a node; it gave back the receiver, which still has the edge.
C15_Witness ==
  /\ call.op = "disconnect"
  /\ ~ BothPresent(heap[call.this], call)
  /\ call.ret = call.this
  /\ hasEdge(heap[call.ret], call.src, call.tgt)

\* C17: deleteNode(key) returns a graph with the receiver's nodes less key and
\* exactly the receiver's edges, those at key included.
C17_Step ==
  (call.op = "none" /\ call'.op = "deleteNode") =>
    LET recv == heap[call'.this]
        r == heap'[call'.ret]
    IN /\ \A k \in Keys :
            /\ hasNode(r, k) = (hasNode(recv, k) /\ k # call'.src)
            /\ k # call'.src => getNode(r, k) = getNode(recv, k)
       /\ r.edges = recv.edges
       /\ \A s \in Keys, t \in Keys : hasEdge(r, s, t) = hasEdge(recv, s, t)
C17_DeleteNodeKeepsEdges == [][C17_Step]_vars

\* C17 witness: deleteNode removed a node that has an incident edge, and the
\* returned graph still stores that edge.
C17_Witness ==
  /\ call.op = "deleteNode"
  /\ hasNode(heap[call.this], call.src)
  /\ ~ hasNode(heap[call.ret], call.src)
  /\ \E ek \in DOMAIN heap[call.ret].edges :
       Source(ek) = call.src \/ Target(ek) = call.src

\* C19: a traversal ends only when its frontier is empty: a key waiting in the
\* wavefront, whatever its value, is emitted before the sequence is done.
C19_EndsOnlyOnEmptyFrontier ==
  trav.done => trav.wavefront = {}

\* C20: every key emitted by topoSort() is a key of the graph's node mapping, so
\* the emitted count never exceeds the number of nodes.
C20_TopoSortEmitsOnlyNodeKeys ==
  IsTopoSort =>
    /\ KeysOf(trav.emitted) \subseteq NodeKeys
    /\ Cardinality(KeysOf(trav.emitted)) <= Cardinality(NodeKeys)

\* C16: a consumer that keeps pulling from topoSort(), ancestors(key) or
\* descendants(key) eventually reaches the end of the sequence.
C16_PullingReachesTheEnd ==
  (trav.kind # "none") ~> trav.done

\* The closure states one next() call can leave when nothing else runs.
AloneNext(g, t) ==
  (IF t.wavefront = {} \/ \E k \in t.wavefront : Falsy(k)
   THEN {[t EXCEPT !.done = TRUE]} ELSE {})
  \cup (IF Len(t.emitted) < MaxEmit
        THEN {traverseNext(g, t, k) : k \in {x \in t.wavefront : ~ Falsy(x)}}
        ELSE {})
\* The closure states a traversal goes through when it is consumed alone.
RECURSIVE AloneRuns(_, _)
AloneRuns(g, t) ==
  {t} \cup (IF t.done THEN {} ELSE UNION {AloneRuns(g, n) : n \in AloneNext(g, t)})
RunsAlone(g, t) ==
  t.kind # "none" =>
    t \in AloneRuns(g, traverseInit(g, t.kind, t.key, Seeds(g, t.kind, t.key)))

\* C18: two traversals started by separate calls on one graph are independent
\* under every interleaving of pulls: a pull changes only its own closure and
\* never the graph, and each closure goes through states, and so emits keys,
\* that it goes through when consumed alone.
C18_Step ==
  /\ heap' = heap
  /\ (trav # NoTrav /\ trav' # trav) => trav2' = trav2
  /\ (trav2 # NoTrav /\ trav2' # trav2) => trav' = trav
  /\ RunsAlone(heap[1], trav')
  /\ RunsAlone(heap[1], trav2')
C18_TraversalInstancesIndependent == [][C18_Step]_vars

\* C18 witness: two traversals of a graph with an edge have both emitted and
\* neither is done, one ahead of the other in what it has left of the edges.
C18_Witness ==
  /\ trav.kind # "none" /\ trav2.kind # "none"
  /\ ~ trav.done /\ ~ trav2.done
  /\ Len(trav.emitted) >= 1 /\ Len(trav2.emitted) >= 1
  /\ trav.edges # trav2.edges
  /\ trav.wavefront # {} /\ trav2.wavefront # {}

EndpointsAreNodes(g) ==
  \A ek \in DOMAIN g.edges : hasNode(g, Source(ek)) /\ hasNode(g, Target(ek))
HasIncidentEdge(g, key) ==
  \E ek \in DOMAIN g.edges : Source(ek) = key \/ Target(ek) = key

\* C21: in every graph made from the empty graph by setNode, connect, connectAll
\* and disconnect calls, both endpoints of every stored edge are node keys; a
\* deleteNode that follows breaks this exactly when it removes a node that has
\* an incident edge.
C21_EndpointsAreNodesUntilDeleteNode ==
  /\ Chaining => \A i \in 1..Len(heap) : EndpointsAreNodes(heap[i])
  /\ call.op = "deleteNode" =>
       /\ EndpointsAreNodes(heap[call.this])
       /\ EndpointsAreNodes(heap[call.ret]) <=>
            ~ (hasNode(heap[call.this], call.src)
               /\ HasIncidentEdge(heap[call.this], call.src))

\* C21 witness: a chain of calls built a graph with two edges and three nodes,
\* and deleteNode then removed a node of an edge, leaving the edge stored.
C21_Witness ==
  /\ call.op = "deleteNode"
  /\ Cardinality(DOMAIN heap[call.this].edges) >= 2
  /\ Cardinality(DOMAIN heap[call.this].nodes) >= 3
  /\ ~ EndpointsAreNodes(heap[call.ret])

====
